---- MODULE Spec2Model ----
(***************************************************************************)
(* WhatsApp notification relay: ingestion (API service), work queue,       *)
(* message processor, retry scheduler and scheduled processor (worker      *)
(* service), modelled step by step at the awaits of the TypeScript code.   *)
(* Time is in milliseconds.                                                *)
(***************************************************************************)
EXTENDS Integers, Sequences, FiniteSets, TLC

\* ------------------------------------------------------------------------
\* Bounds of the model
\* ------------------------------------------------------------------------
MaxNotifs == 2
NumApi == 2
NumRecipients == 1
MaxTime == 4000000
MaxPipelineTime == 200000
MaxPipelineNotifs == 1
NumWorkers == 2
MaxSends == 6
MaxSendsDup == 2
MaxCallbacks == 2
MaxSendsHook == 3
MaxRedeliverTime == 60000
MaxSweepTime == 3000

\* ------------------------------------------------------------------------
\* Program constants
\* ------------------------------------------------------------------------
RateLimitPerHour == 10
DefaultMaxAttempts == 5
HourMs == 3600000
VisibilityTimeoutMs == 30000
MaxReceiveCount == 3
SweepLimit == 100
BaseDelayMs == 1000
MaxDelayMs == 60000

NULL == -1

NotifIds == 1..MaxNotifs
ApiProcs == 1..NumApi
Recipients == 1..NumRecipients
Tenants == {"t1"}
IdempotencyKeys == {"none", "k1"}
\* message_count values of the rate-limit rows left by earlier admissions
SeedCounts == {0, 9, 10}
\* scheduled_for of a request, relative to its arrival: absent, not in the future, 2 min ahead
ScheduleLeads == {NULL, 0, 120000}

VARIABLES
  now,            \* wall clock, Date.now()
  nextId,         \* next fresh notification id (randomUUID)
  requests,       \* id -> the request body and headers that createNotification got
  responses,      \* id -> the HTTP response of the finished request
  api,            \* per request handler: position in createNotification and locals
  notifications,  \* table notifications: id -> row
  rateLimits,     \* table rate_limits: sequence of rows
  queue,          \* main SQS queue: notification id -> message state
  published,      \* ids for which a work item was ever published
  incremented,    \* ids whose request incremented the rate-limit counter
  deliveryLogs,   \* table delivery_logs: sequence of rows, in creation order
  dlq,            \* dead-letter queue: ids of the messages moved there
  task,           \* per runner: position in MessageProcessor.processMessage and locals
  sweep,          \* per scheduler: position in its timer loop and the rows it found
  storeUp,        \* whether the worker service's store calls succeed
  sends,          \* id -> number of calls made to the provider for it
  hook,           \* the webhook handler: position in processStatusUpdates and locals
  handled,        \* the status callbacks answered so far, in order, with their replies
  exchange,       \* the latest request answered by a preHandler or by the status route
  bulk,           \* the bulk request handler: position in createBulkNotifications, results
  down            \* the worker process: running, shutting down or exited

ingestVars == <<now, nextId, requests, responses, api, notifications, rateLimits,
                queue, published, incremented>>

workerVars == <<deliveryLogs, dlq, task, sweep, storeUp, sends>>

edgeVars == <<hook, handled, exchange, bulk, down>>

vars == <<ingestVars, workerVars, edgeVars>>

\* ------------------------------------------------------------------------
\* Rate-limit repository
\* ------------------------------------------------------------------------
\* _sum of messageCount over the rows of the table at the positions in idx
RECURSIVE SumCounts(_)
SumCounts(idx) ==
  IF idx = {} THEN 0
  ELSE LET i == CHOOSE j \in idx : TRUE
       IN rateLimits[i].messageCount + SumCounts(idx \ {i})

\* aggregate of checkLimit: windowEnd > now AND windowStart > now - 1h
CurrentCount(recipientPhone, t) ==
  SumCounts({i \in 1..Len(rateLimits) :
               /\ rateLimits[i].recipientPhone = recipientPhone
               /\ rateLimits[i].windowEnd > t
               /\ rateLimits[i].windowStart > t - HourMs})

CheckLimit(recipientPhone, limitPerHour) ==
  CurrentCount(recipientPhone, now) < limitPerHour

\* new Date(year, month, date, hours): the hour-aligned start of the current window
WindowStart(t) == (t \div HourMs) * HourMs

\* findFirst({recipientPhone, windowStart}): position of the first matching row, 0 if none
FindWindow(recipientPhone, windowStart) ==
  LET hits == {i \in 1..Len(rateLimits) :
                 /\ rateLimits[i].recipientPhone = recipientPhone
                 /\ rateLimits[i].windowStart = windowStart}
  IN IF hits = {} THEN 0 ELSE CHOOSE i \in hits : \A j \in hits : i <= j

\* ------------------------------------------------------------------------
\* Notification repository
\* ------------------------------------------------------------------------
NewNotification(req, t) ==
  [ status           |-> "queued",
    recipientPhone   |-> req.recipient,
    tenantId         |-> req.tenant,
    scheduledFor     |-> req.scheduledFor,
    createdAt        |-> t,
    attemptNumber    |-> 0,
    maxAttempts      |-> DefaultMaxAttempts,
    nextRetryAt      |-> NULL,
    whatsappMessageId |-> NULL,
    sentAt           |-> NULL,
    deliveredAt      |-> NULL,
    readAt           |-> NULL,
    failedAt         |-> NULL ]

\* ------------------------------------------------------------------------
\* Ingestion: createNotification, one action per await
\* ------------------------------------------------------------------------
IdleApi == [pc |-> "idle", id |-> 0, existing |-> 0, windowStart |-> 0]

\* the earlier requests of the tenant with this Idempotency-Key that were answered 201
\* (recorded with the request for the properties; the handler never reads the header)
Answered(tenant, key) ==
  {i \in DOMAIN responses : /\ key # "none"
                            /\ requests[i].key = key
                            /\ requests[i].tenant = tenant
                            /\ responses[i].http = 201}

\* POST /v1/notifications reaches the handler; notificationId = randomUUID()
\* Handlers are interchangeable: the request goes to the first idle one.
ApiReceive(p, cap, keys, leads) ==
  /\ api[p].pc = "idle"
  /\ \A q \in ApiProcs : q < p => api[q].pc # "idle"
  /\ nextId <= cap
  /\ \E r \in Recipients, tn \in Tenants, k \in keys,
        s \in {IF d = NULL THEN NULL ELSE now + d : d \in leads} :
       requests' = [i \in DOMAIN requests \cup {nextId} |->
                      IF i = nextId
                      THEN [recipient |-> r, tenant |-> tn, key |-> k, scheduledFor |-> s,
                            replays |-> Answered(tn, k)]
                      ELSE requests[i]]
  /\ api' = [api EXCEPT ![p] = [pc |-> "check", id |-> nextId, existing |-> 0, windowStart |-> 0]]
  /\ nextId' = nextId + 1
  /\ UNCHANGED <<now, responses, notifications, rateLimits, queue, published, incremented>>
  /\ UNCHANGED workerVars
  /\ UNCHANGED edgeVars

\* throw new Error(message): no statusCode, no code
PlainError(message) == [message |-> message, statusCode |-> NULL, code |-> "none"]

\* reply.status(201).send({success: true, data: {id, status: 'queued'}})
Created(id) ==
  [http |-> 201, id |-> id, status |-> "queued", code |-> "none", message |-> "none",
   retryAfterSeconds |-> NULL]

\* errorHandler: statusCode = error.statusCode || 500; code = error.code || 'INTERNAL_ERROR';
\* the body has error, message, code and traceId only
ErrorHandler(error) ==
  [http |-> IF error.statusCode # NULL THEN error.statusCode ELSE 500,
   id |-> NULL, status |-> "none",
   code |-> IF error.code # "none" THEN error.code ELSE "INTERNAL_ERROR",
   message |-> error.message, retryAfterSeconds |-> NULL]

Respond(id, reply) ==
  responses' = [i \in DOMAIN responses \cup {id} |-> IF i = id THEN reply ELSE responses[i]]

\* createNotification counting the request before the limit is checked: the rejected
\* request has already incremented the recipient's counter
ApiCheckLimitAfterIncrement(p) ==
  LET id == api[p].id
      e  == FindWindow(requests[id].recipient, WindowStart(now))
  IN
  /\ api[p].pc = "check"
  /\ IF CheckLimit(requests[id].recipient, RateLimitPerHour)
     THEN /\ api' = [api EXCEPT ![p].pc = "create"]
          /\ UNCHANGED <<responses, rateLimits, incremented>>
     ELSE /\ api' = [api EXCEPT ![p] = IdleApi]
          /\ rateLimits' = IF e # 0
                           THEN [rateLimits EXCEPT ![e].messageCount = @ + 1]
                           ELSE Append(rateLimits,
                                       [recipientPhone |-> requests[id].recipient,
                                        windowStart |-> WindowStart(now),
                                        windowEnd |-> WindowStart(now) + HourMs,
                                        messageCount |-> 1])
          /\ incremented' = incremented \cup {id}
          /\ Respond(id, ErrorHandler(PlainError("Rate limit exceeded")))
  /\ UNCHANGED <<now, nextId, requests, notifications, queue, published>>
  /\ UNCHANGED workerVars
  /\ UNCHANGED edgeVars

\* await rateLimitRepository.checkLimit(phone, 10);
\* if (!isUnderLimit) throw new Error('Rate limit exceeded')
ApiCheckLimit(p) ==
  LET id == api[p].id IN
  /\ api[p].pc = "check"
  /\ IF CheckLimit(requests[id].recipient, RateLimitPerHour)
     THEN /\ api' = [api EXCEPT ![p].pc = "create"]
          /\ UNCHANGED responses
     ELSE /\ api' = [api EXCEPT ![p] = IdleApi]
          /\ Respond(id, ErrorHandler(PlainError("Rate limit exceeded")))
  /\ UNCHANGED <<now, nextId, requests, notifications, rateLimits, queue, published,
                 incremented>>
  /\ UNCHANGED workerVars
  /\ UNCHANGED edgeVars

\* a createNotification that goes on to the rate limit and the queue without writing the row
ApiCreateSkipped(p) ==
  /\ api[p].pc = "create"
  /\ api' = [api EXCEPT ![p].pc = "incFind"]
  /\ UNCHANGED <<now, nextId, requests, responses, notifications, rateLimits, queue,
                 published, incremented>>
  /\ UNCHANGED workerVars
  /\ UNCHANGED edgeVars

\* await notificationRepository.create({...})
ApiCreate(p) ==
  LET id == api[p].id IN
  /\ api[p].pc = "create"
  /\ notifications' = [i \in DOMAIN notifications \cup {id} |->
                         IF i = id THEN NewNotification(requests[id], now)
                         ELSE notifications[i]]
  /\ api' = [api EXCEPT ![p].pc = "incFind"]
  /\ UNCHANGED <<now, nextId, requests, responses, rateLimits, queue, published,
                 incremented>>
  /\ UNCHANGED workerVars
  /\ UNCHANGED edgeVars

\* increment: await prisma.rateLimit.findFirst({recipientPhone, windowStart})
ApiIncrementFind(p) ==
  LET id == api[p].id IN
  /\ api[p].pc = "incFind"
  /\ api' = [api EXCEPT ![p].pc = "incWrite",
                        ![p].windowStart = WindowStart(now),
                        ![p].existing = FindWindow(requests[id].recipient, WindowStart(now))]
  /\ UNCHANGED <<now, nextId, requests, responses, notifications, rateLimits, queue,
                 published, incremented>>
  /\ UNCHANGED workerVars
  /\ UNCHANGED edgeVars

\* increment: update({messageCount: {increment: 1}}) of the row found, or create a new row
\* for the window that was current when increment began
ApiIncrementWrite(p) ==
  LET id == api[p].id
      e  == api[p].existing
      ws == api[p].windowStart
  IN
  /\ api[p].pc = "incWrite"
  /\ rateLimits' = IF e # 0
                   THEN [rateLimits EXCEPT ![e].messageCount = @ + 1]
                   ELSE Append(rateLimits,
                               [recipientPhone |-> requests[id].recipient,
                                windowStart |-> ws, windowEnd |-> ws + HourMs,
                                messageCount |-> 1])
  /\ incremented' = incremented \cup {id}
  /\ api' = [api EXCEPT ![p].pc = "publish"]
  /\ UNCHANGED <<now, nextId, requests, responses, notifications, queue, published>>
  /\ UNCHANGED workerVars
  /\ UNCHANGED edgeVars

\* await publishMessage({id, body, deduplicationId}); return {id, status: 'queued'}
\* ok = FALSE: sqsClient.send rejects and publishMessage throws
\* new Error('Failed to publish message to queue')
ApiPublish(p) ==
  LET id == api[p].id IN
  /\ api[p].pc = "publish"
  /\ \E ok \in BOOLEAN :
       IF ok
       THEN /\ queue' = [i \in DOMAIN queue \cup {id} |->
                           IF i = id
                           THEN [attempt_number |-> 0, max_attempts |-> DefaultMaxAttempts,
                                 receiveCount |-> 0, invisibleUntil |-> 0,
                                 groupId |-> "default", deduplicationId |-> id]
                           ELSE queue[i]]
            /\ published' = published \cup {id}
            /\ Respond(id, Created(id))
       ELSE /\ UNCHANGED <<queue, published>>
            /\ Respond(id, ErrorHandler(PlainError("Failed to publish message to queue")))
  /\ api' = [api EXCEPT ![p] = IdleApi]
  /\ UNCHANGED <<now, nextId, requests, notifications, rateLimits, incremented>>
  /\ UNCHANGED workerVars
  /\ UNCHANGED edgeVars

\* ------------------------------------------------------------------------
\* Clock: time passes to the next instant at which something becomes due
\* ------------------------------------------------------------------------
ClockEvents ==
  {WindowStart(now) + HourMs}
    \cup {notifications[i].scheduledFor : i \in DOMAIN notifications}
    \cup {notifications[i].nextRetryAt : i \in DOMAIN notifications}
    \cup {queue[i].invisibleUntil : i \in DOMAIN queue}

Tick(horizon) ==
  /\ \E t \in ClockEvents : t > now /\ t <= horizon /\ now' = t
  /\ UNCHANGED <<nextId, requests, responses, api, notifications, rateLimits, queue,
                 published, incremented>>
  /\ UNCHANGED workerVars
  /\ UNCHANGED edgeVars

\* ------------------------------------------------------------------------
\* Worker service: runners of MessageProcessor.processMessage
\* ------------------------------------------------------------------------
Workers == 1..NumWorkers
Retry == NumWorkers + 1
Sched == NumWorkers + 2
Sweepers == {Retry, Sched}
Runners == Workers \cup Sweepers

NoError == [kind |-> "none", status |-> 0, code |-> 0]
StoreError == [kind |-> "store", status |-> 0, code |-> 0]
\* what the provider call can throw: HTTP 503, HTTP 400 with provider code 131026
ProviderErrors == {[kind |-> "http", status |-> 503, code |-> 0],
                   [kind |-> "http", status |-> 400, code |-> 131026]}

\* the errors axios can hand to isRetryableError: no response at all, or a response with
\* an HTTP status and, in its body, a provider error code (0: no code in the body)
NetworkError == [kind |-> "network", status |-> 0, code |-> 0]
ErrorStatuses == {400, 401, 404, 408, 429, 500, 501, 502, 503, 504, 505}
ErrorCodes == {0, 1, 2, 4, 100, 80007, 131026}
ErrorInputs ==
  {NetworkError} \cup
    {[kind |-> "http", status |-> st, code |-> c] : st \in ErrorStatuses, c \in ErrorCodes}

IdleTask == [pc |-> "idle", id |-> 0, attempt_number |-> 0, max_attempts |-> 0,
             err |-> NoError, wamid |-> NULL, nextRetryAt |-> NULL]

StartTask(id, k, max) ==
  [pc |-> "start", id |-> id, attempt_number |-> k, max_attempts |-> max,
   err |-> NoError, wamid |-> NULL, nextRetryAt |-> NULL]

\* the id the provider returns for the n-th accepted call for notification id
WamId(id, n) == id * 100 + n

\* WhatsAppClient.isRetryableError: no response, a retryable HTTP status, or a retryable code
IsRetryableError(e) ==
  IF e.kind # "http" THEN TRUE
  ELSE \/ e.status \in {408, 429, 500, 502, 503, 504}
       \/ e.code \in {1, 2, 4, 80007}

RECURSIVE Pow2(_)
Pow2(n) == IF n <= 0 THEN 1 ELSE 2 * Pow2(n - 1)

\* calculateRetryDelay(attempt): exponential backoff from 1 s, capped at 60 s
CalculateRetryDelay(attempt) ==
  LET d == IF attempt >= 1 THEN BaseDelayMs * Pow2(attempt - 1) ELSE BaseDelayMs \div 2
  IN IF d > MaxDelayMs THEN MaxDelayMs ELSE d

\* prisma.notification.update({where: {id}, data}) succeeds when the store answers and the row exists
StoreOk(id) == storeUp /\ id \in DOMAIN notifications

\* NotificationRepository.updateStatus: data = {status, ...updates}
UpdateStatus(id, status, updates) ==
  [notifications EXCEPT ![id] = [f \in DOMAIN @ |->
     IF f = "status" THEN status
     ELSE IF f \in DOMAIN updates THEN updates[f] ELSE @[f]]]

\* NotificationRepository.incrementAttempt: attemptNumber += 1, nextRetryAt
IncrementAttempt(id, nextRetryAt) ==
  [notifications EXCEPT ![id].attemptNumber = @ + 1, ![id].nextRetryAt = nextRetryAt]

\* deliveryLogRepository.create
LogRow(id, attemptNumber, status, wamid) ==
  [notificationId |-> id, attemptNumber |-> attemptNumber, status |-> status,
   whatsappMessageId |-> wamid]

NoUpdates == [x \in {} |-> NULL]

\* try { await updateStatus(id, processing) ... } catch (error) { await handleError(...) }
PmSetProcessing(x) ==
  LET t == task[x] IN
  /\ t.pc = "start"
  /\ IF StoreOk(t.id)
     THEN /\ notifications' = UpdateStatus(t.id, "processing", NoUpdates)
          /\ task' = [task EXCEPT ![x].pc = "send"]
     ELSE /\ task' = [task EXCEPT ![x].pc = "logFailed", ![x].err = StoreError]
          /\ UNCHANGED notifications
  /\ UNCHANGED <<now, nextId, requests, responses, api, rateLimits, queue, published,
                 incremented, deliveryLogs, dlq, sweep, storeUp, sends>>
  /\ UNCHANGED edgeVars

\* const response = await this.sendWhatsAppMessage(payload): the provider accepts the
\* message, or the call throws one of errors
PmSendThrowing(x, cap, errors) ==
  LET t == task[x] IN
  /\ t.pc = "send"
  /\ sends[t.id] < cap
  /\ sends' = [sends EXCEPT ![t.id] = @ + 1]
  /\ \/ task' = [task EXCEPT ![x].pc = "markSent", ![x].wamid = WamId(t.id, sends[t.id] + 1)]
     \/ \E e \in errors :
          task' = [task EXCEPT ![x].pc = "logFailed", ![x].err = e]
  /\ UNCHANGED <<now, nextId, requests, responses, api, notifications, rateLimits, queue,
                 published, incremented, deliveryLogs, dlq, sweep, storeUp>>
  /\ UNCHANGED edgeVars

PmSend(x, cap) == PmSendThrowing(x, cap, ProviderErrors)

\* await updateStatus(id, sent, {whatsappMessageId, sentAt: new Date()})
PmMarkSent(x) ==
  LET t == task[x] IN
  /\ t.pc = "markSent"
  /\ IF StoreOk(t.id)
     THEN /\ notifications' = UpdateStatus(t.id, "sent",
                                [whatsappMessageId |-> t.wamid, sentAt |-> now])
          /\ task' = [task EXCEPT ![x].pc = "logSent"]
     ELSE /\ task' = [task EXCEPT ![x].pc = "logFailed", ![x].err = StoreError]
          /\ UNCHANGED notifications
  /\ UNCHANGED <<now, nextId, requests, responses, api, rateLimits, queue, published,
                 incremented, deliveryLogs, dlq, sweep, storeUp, sends>>
  /\ UNCHANGED edgeVars

\* the same create passing the work item's attempt_number as it came
PmLogSentStale(x) ==
  LET t == task[x] IN
  /\ t.pc = "logSent"
  /\ IF storeUp
     THEN /\ deliveryLogs' = Append(deliveryLogs,
                                LogRow(t.id, t.attempt_number, "sent", t.wamid))
          /\ task' = [task EXCEPT ![x].pc = "returned"]
     ELSE /\ task' = [task EXCEPT ![x].pc = "logFailed", ![x].err = StoreError]
          /\ UNCHANGED deliveryLogs
  /\ UNCHANGED <<now, nextId, requests, responses, api, notifications, rateLimits, queue,
                 published, incremented, dlq, sweep, storeUp, sends>>
  /\ UNCHANGED edgeVars

\* await deliveryLogRepository.create({attemptNumber: attempt_number + 1, status: sent, ...})
PmLogSent(x) ==
  LET t == task[x] IN
  /\ t.pc = "logSent"
  /\ IF storeUp
     THEN /\ deliveryLogs' = Append(deliveryLogs,
                                LogRow(t.id, t.attempt_number + 1, "sent", t.wamid))
          /\ task' = [task EXCEPT ![x].pc = "returned"]
     ELSE /\ task' = [task EXCEPT ![x].pc = "logFailed", ![x].err = StoreError]
          /\ UNCHANGED deliveryLogs
  /\ UNCHANGED <<now, nextId, requests, responses, api, notifications, rateLimits, queue,
                 published, incremented, dlq, sweep, storeUp, sends>>
  /\ UNCHANGED edgeVars

\* handleError: await deliveryLogRepository.create({attemptNumber, status: failed, ...})
PmLogFailed(x) ==
  LET t == task[x] IN
  /\ t.pc = "logFailed"
  /\ IF storeUp
     THEN /\ deliveryLogs' = Append(deliveryLogs,
                                LogRow(t.id, t.attempt_number + 1, "failed", NULL))
          /\ task' = [task EXCEPT ![x].pc = "updateFailed"]
     ELSE /\ task' = [task EXCEPT ![x].pc = "threw"]
          /\ UNCHANGED deliveryLogs
  /\ UNCHANGED <<now, nextId, requests, responses, api, notifications, rateLimits, queue,
                 published, incremented, dlq, sweep, storeUp, sends>>
  /\ UNCHANGED edgeVars

\* the same decision testing the attempt number the work item carried, not the attempt made
PmUpdateFailedStaleAttempt(x) ==
  LET t == task[x]
      attemptNumber == t.attempt_number + 1
      retry == IsRetryableError(t.err) /\ t.attempt_number < t.max_attempts
  IN
  /\ t.pc = "updateFailed"
  /\ IF StoreOk(t.id)
     THEN IF retry
          THEN /\ notifications' = UpdateStatus(t.id, "failed", NoUpdates)
               /\ task' = [task EXCEPT ![x].pc = "incrementAttempt",
                                       ![x].nextRetryAt = now + CalculateRetryDelay(attemptNumber)]
          ELSE /\ notifications' = UpdateStatus(t.id, "failed", [failedAt |-> now])
               /\ task' = [task EXCEPT ![x].pc = "returned"]
     ELSE /\ task' = [task EXCEPT ![x].pc = "threw"]
          /\ UNCHANGED notifications
  /\ UNCHANGED <<now, nextId, requests, responses, api, rateLimits, queue, published,
                 incremented, deliveryLogs, dlq, sweep, storeUp, sends>>
  /\ UNCHANGED edgeVars

\* handleError: if (isRetryable && attemptNumber < max_attempts)
\*   { nextRetryAt = now + calculateRetryDelay(attemptNumber); await updateStatus(id, failed, {error}) }
\* else { await updateStatus(id, failed, {error, failedAt: new Date()}) }
PmUpdateFailed(x) ==
  LET t == task[x]
      attemptNumber == t.attempt_number + 1
      retry == IsRetryableError(t.err) /\ attemptNumber < t.max_attempts
  IN
  /\ t.pc = "updateFailed"
  /\ IF StoreOk(t.id)
     THEN IF retry
          THEN /\ notifications' = UpdateStatus(t.id, "failed", NoUpdates)
               /\ task' = [task EXCEPT ![x].pc = "incrementAttempt",
                                       ![x].nextRetryAt = now + CalculateRetryDelay(attemptNumber)]
          ELSE /\ notifications' = UpdateStatus(t.id, "failed", [failedAt |-> now])
               /\ task' = [task EXCEPT ![x].pc = "returned"]
     ELSE /\ task' = [task EXCEPT ![x].pc = "threw"]
          /\ UNCHANGED notifications
  /\ UNCHANGED <<now, nextId, requests, responses, api, rateLimits, queue, published,
                 incremented, deliveryLogs, dlq, sweep, storeUp, sends>>
  /\ UNCHANGED edgeVars

\* handleError: await notificationRepository.incrementAttempt(id, nextRetryAt)
PmIncrementAttempt(x) ==
  LET t == task[x] IN
  /\ t.pc = "incrementAttempt"
  /\ IF StoreOk(t.id)
     THEN /\ notifications' = IncrementAttempt(t.id, t.nextRetryAt)
          /\ task' = [task EXCEPT ![x].pc = "returned"]
     ELSE /\ task' = [task EXCEPT ![x].pc = "threw"]
          /\ UNCHANGED notifications
  /\ UNCHANGED <<now, nextId, requests, responses, api, rateLimits, queue, published,
                 incremented, deliveryLogs, dlq, sweep, storeUp, sends>>
  /\ UNCHANGED edgeVars

\* ------------------------------------------------------------------------
\* SQS queue and consumer
\* ------------------------------------------------------------------------
Receivable(id) ==
  /\ id \in DOMAIN queue
  /\ queue[id].invisibleUntil <= now
  /\ queue[id].receiveCount < MaxReceiveCount

RemoveKey(f, k) == [i \in DOMAIN f \ {k} |-> f[i]]

\* SQSConsumer.poll of worker instance w: ReceiveMessage returns one visible message, which
\* becomes invisible for the visibility timeout, and processMessage(message) starts
ConsumerPoll(w) ==
  /\ task[w].pc = "idle"
  /\ \E id \in DOMAIN queue :
       /\ Receivable(id)
       /\ queue' = [queue EXCEPT ![id].receiveCount = @ + 1,
                                 ![id].invisibleUntil = now + VisibilityTimeoutMs]
       /\ task' = [task EXCEPT ![w] = StartTask(id, queue[id].attempt_number,
                                                queue[id].max_attempts)]
  /\ UNCHANGED <<now, nextId, requests, responses, api, notifications, rateLimits,
                 published, incremented, deliveryLogs, dlq, sweep, storeUp, sends>>
  /\ UNCHANGED edgeVars

\* key under which the queue holds a message whose Body is no payload
MalformedId == 0

\* what processMessage throws before its try block: new Error('Message body is empty')
\* when Body is missing, the SyntaxError of JSON.parse when Body is not JSON
BodyErrors == {[kind |-> "emptyBody", status |-> 0, code |-> 0],
               [kind |-> "syntaxError", status |-> 0, code |-> 0]}

\* SendMessage by a holder of the queue URL other than createNotification: the message
\* has no Body the processor can parse, and no payload fields
ForeignSend ==
  /\ MalformedId \notin DOMAIN queue \cup dlq
  /\ queue' = [i \in DOMAIN queue \cup {MalformedId} |->
                 IF i = MalformedId
                 THEN [attempt_number |-> NULL, max_attempts |-> NULL,
                       receiveCount |-> 0, invisibleUntil |-> 0,
                       groupId |-> "default", deduplicationId |-> MalformedId]
                 ELSE queue[i]]
  /\ UNCHANGED <<now, nextId, requests, responses, api, notifications, rateLimits,
                 published, incremented>>
  /\ UNCHANGED workerVars
  /\ UNCHANGED edgeVars

\* SQSConsumer.poll of worker instance w receives the message without payload:
\* processMessage throws at `if (!message.Body) throw` or at JSON.parse, outside its try
ConsumerPollMalformed(w) ==
  /\ task[w].pc = "idle"
  /\ Receivable(MalformedId)
  /\ queue' = [queue EXCEPT ![MalformedId].receiveCount = @ + 1,
                            ![MalformedId].invisibleUntil = now + VisibilityTimeoutMs]
  /\ \E err \in BodyErrors :
       task' = [task EXCEPT ![w] = [IdleTask EXCEPT !.pc = "threw", !.id = MalformedId,
                                                    !.err = err]]
  /\ UNCHANGED <<now, nextId, requests, responses, api, notifications, rateLimits,
                 published, incremented, deliveryLogs, dlq, sweep, storeUp, sends>>
  /\ UNCHANGED edgeVars

\* SQSConsumer.poll of worker instance w receives a message published by createNotification
ConsumerPollPayload(w) == ConsumerPoll(w) /\ task'[w].id \in NotifIds

\* redrive policy of the queue: a message received maxReceiveCount times goes to the DLQ
Redrive(id) ==
  /\ id \in DOMAIN queue
  /\ queue[id].invisibleUntil <= now
  /\ queue[id].receiveCount >= MaxReceiveCount
  /\ queue' = RemoveKey(queue, id)
  /\ dlq' = dlq \cup {id}
  /\ UNCHANGED <<now, nextId, requests, responses, api, notifications, rateLimits,
                 published, incremented, deliveryLogs, task, sweep, storeUp, sends>>
  /\ UNCHANGED edgeVars

\* SQSConsumer.processMessage: await messageHandler(message); await this.deleteMessage(message)
ConsumerDelete(w) ==
  /\ task[w].pc = "returned"
  /\ queue' = RemoveKey(queue, task[w].id)
  /\ task' = [task EXCEPT ![w] = IdleTask]
  /\ UNCHANGED <<now, nextId, requests, responses, api, notifications, rateLimits,
                 published, incremented, deliveryLogs, dlq, sweep, storeUp, sends>>
  /\ UNCHANGED edgeVars

\* SQSConsumer.processMessage: deleteMessage rejects; catch (error) { logger.error(...) }
ConsumerDeleteFails(w) ==
  /\ task[w].pc = "returned"
  /\ task' = [task EXCEPT ![w] = IdleTask]
  /\ UNCHANGED <<now, nextId, requests, responses, api, notifications, rateLimits, queue,
                 published, incremented, deliveryLogs, dlq, sweep, storeUp, sends>>
  /\ UNCHANGED edgeVars

\* SQSConsumer.processMessage with the delete moved to where the error is caught: the
\* message of a handler that threw is removed
ConsumerCatchDeleting(w) ==
  /\ task[w].pc = "threw"
  /\ queue' = RemoveKey(queue, task[w].id)
  /\ task' = [task EXCEPT ![w] = IdleTask]
  /\ UNCHANGED <<now, nextId, requests, responses, api, notifications, rateLimits,
                 published, incremented, deliveryLogs, dlq, sweep, storeUp, sends>>
  /\ UNCHANGED edgeVars

\* SQSConsumer.processMessage: the handler threw; catch (error) { logger.error(...) },
\* the message stays
ConsumerCatch(w) ==
  /\ task[w].pc = "threw"
  /\ task' = [task EXCEPT ![w] = IdleTask]
  /\ UNCHANGED <<now, nextId, requests, responses, api, notifications, rateLimits, queue,
                 published, incremented, deliveryLogs, dlq, sweep, storeUp, sends>>
  /\ UNCHANGED edgeVars

\* ------------------------------------------------------------------------
\* Retry scheduler and scheduled processor
\* ------------------------------------------------------------------------
ReadyForRetry(id) ==
  /\ notifications[id].status = "failed"
  /\ notifications[id].nextRetryAt # NULL
  /\ notifications[id].nextRetryAt <= now
  /\ notifications[id].attemptNumber < notifications[id].maxAttempts

IsScheduledDue(id) ==
  /\ notifications[id].status = "scheduled"
  /\ notifications[id].scheduledFor # NULL
  /\ notifications[id].scheduledFor <= now

Snapshot(id) ==
  [id |-> id, attemptNumber |-> notifications[id].attemptNumber,
   maxAttempts |-> notifications[id].maxAttempts]

Take(seq, n) == SubSeq(seq, 1, IF Len(seq) < n THEN Len(seq) ELSE n)

\* the orders in which findMany may return the rows of ids, sorted ascending by key
OrderedBy(ids, key) ==
  {s \in [1..Cardinality(ids) -> ids] :
     /\ \A i, j \in DOMAIN s : i < j => s[i] # s[j] /\ key[s[i]] <= key[s[j]]}

\* findReadyForRetry(limit): where status = failed, nextRetryAt <= now,
\* attemptNumber < maxAttempts; orderBy nextRetryAt asc; take limit
FindReadyForRetry(limit) ==
  LET key == [id \in DOMAIN notifications |-> notifications[id].nextRetryAt] IN
  {Take([i \in DOMAIN s |-> Snapshot(s[i])], limit) :
     s \in OrderedBy({id \in DOMAIN notifications : ReadyForRetry(id)}, key)}

\* findScheduled(limit): where status = scheduled, scheduledFor <= now; orderBy scheduledFor asc
FindScheduled(limit) ==
  LET key == [id \in DOMAIN notifications |-> notifications[id].scheduledFor] IN
  {Take([i \in DOMAIN s |-> Snapshot(s[i])], limit) :
     s \in OrderedBy({id \in DOMAIN notifications : IsScheduledDue(id)}, key)}

\* scheduleNext(): if (!this.isRunning) return; otherwise the timer is armed again
ScheduleNext == IF down = "running" THEN "waiting" ELSE "stopped"

\* setTimeout(async () => {...}, intervalMs) fires
TimerFires(x) ==
  /\ sweep[x].pc = "waiting"
  /\ sweep' = [sweep EXCEPT ![x].pc = "finding"]
  /\ UNCHANGED <<now, nextId, requests, responses, api, notifications, rateLimits, queue,
                 published, incremented, deliveryLogs, dlq, task, storeUp, sends>>
  /\ UNCHANGED edgeVars

\* processRetries / processScheduled: the find; an empty result or a store error ends the
\* tick and scheduleNext() is called
SweepFind(x) ==
  /\ sweep[x].pc = "finding"
  /\ IF ~storeUp
     THEN sweep' = [sweep EXCEPT ![x].pc = ScheduleNext]
     ELSE \E found \in (IF x = Retry THEN FindReadyForRetry(SweepLimit)
                                    ELSE FindScheduled(SweepLimit)) :
            sweep' = [sweep EXCEPT ![x] =
                        IF found = <<>> THEN [pc |-> ScheduleNext, items |-> <<>>]
                        ELSE [pc |-> "looping", items |-> found]]
  /\ UNCHANGED <<now, nextId, requests, responses, api, notifications, rateLimits, queue,
                 published, incremented, deliveryLogs, dlq, task, storeUp, sends>>
  /\ UNCHANGED edgeVars

\* loop body: (scheduled processor only: await updateStatus(id, queued);) build the
\* SQS-like message from the row found and call processor.processMessage(message)
SweepStartItem(x) ==
  LET n == Head(sweep[x].items) IN
  /\ sweep[x].pc = "looping"
  /\ task[x].pc = "idle"
  /\ sweep[x].items # <<>>
  /\ IF x = Sched /\ ~StoreOk(n.id)
     THEN /\ task' = [task EXCEPT ![x].pc = "threw"]
          /\ UNCHANGED notifications
     ELSE /\ task' = [task EXCEPT ![x] = StartTask(n.id, n.attemptNumber, n.maxAttempts)]
          /\ notifications' = IF x = Sched THEN UpdateStatus(n.id, "queued", NoUpdates)
                              ELSE notifications
  /\ UNCHANGED <<now, nextId, requests, responses, api, rateLimits, queue, published,
                 incremented, deliveryLogs, dlq, sweep, storeUp, sends>>
  /\ UNCHANGED edgeVars

\* a loop without the try / catch around its body: an item whose processMessage threw
\* ends the tick
SweepItemDoneAborting(x) ==
  /\ sweep[x].pc = "looping"
  /\ task[x].pc \in {"returned", "threw"}
  /\ task' = [task EXCEPT ![x] = IdleTask]
  /\ sweep' = [sweep EXCEPT ![x] =
                 IF Tail(sweep[x].items) = <<>> \/ task[x].pc = "threw"
                 THEN [pc |-> ScheduleNext, items |-> <<>>]
                 ELSE [pc |-> "looping", items |-> Tail(sweep[x].items)]]
  /\ UNCHANGED <<now, nextId, requests, responses, api, notifications, rateLimits, queue,
                 published, incremented, deliveryLogs, dlq, storeUp, sends>>
  /\ UNCHANGED edgeVars

\* end of one iteration (processMessage returned, or its error was caught and logged);
\* after the last row the tick ends and scheduleNext() is called
SweepItemDone(x) ==
  /\ sweep[x].pc = "looping"
  /\ task[x].pc \in {"returned", "threw"}
  /\ task' = [task EXCEPT ![x] = IdleTask]
  /\ sweep' = [sweep EXCEPT ![x] =
                 IF Tail(sweep[x].items) = <<>> THEN [pc |-> ScheduleNext, items |-> <<>>]
                 ELSE [pc |-> "looping", items |-> Tail(sweep[x].items)]]
  /\ UNCHANGED <<now, nextId, requests, responses, api, notifications, rateLimits, queue,
                 published, incremented, deliveryLogs, dlq, storeUp, sends>>
  /\ UNCHANGED edgeVars

\* ------------------------------------------------------------------------
\* Store outages seen by the worker service
\* ------------------------------------------------------------------------
StoreFails ==
  /\ storeUp
  /\ storeUp' = FALSE
  /\ UNCHANGED <<ingestVars, deliveryLogs, dlq, task, sweep, sends>>
  /\ UNCHANGED edgeVars

StoreRecovers ==
  /\ ~storeUp
  /\ storeUp' = TRUE
  /\ UNCHANGED <<ingestVars, deliveryLogs, dlq, task, sweep, sends>>
  /\ UNCHANGED edgeVars

\* ------------------------------------------------------------------------
\* Provider status callbacks: POST /v1/webhooks/whatsapp, processStatusUpdates
\* ------------------------------------------------------------------------
CallbackStatuses == {"delivered", "read", "failed"}

\* status.id of a callback: a provider message id stored for a send, or the id of a
\* stored notification (the route accepts any body)
CallbackIds ==
  DOMAIN notifications
    \cup ({notifications[i].whatsappMessageId : i \in DOMAIN notifications} \ {NULL})

NoCallback == [id |-> 0, status |-> "none", timestamp |-> 0, signed |-> FALSE]
NoRow == [id |-> 0, status |-> "none", attemptNumber |-> 0]

IdleHook == [pc |-> "idle", cb |-> NoCallback, notification |-> NoRow]

\* the POST arrives with one status entry; signed: whether the request carries a valid
\* signature of the provider (the handler reads neither header nor token); at most cap
\* callbacks arrive, their signatures drawn from signatures
WhReceive(cap, signatures) ==
  /\ hook.pc = "idle"
  /\ Len(handled) < cap
  /\ \E id \in CallbackIds, st \in CallbackStatuses, sg \in signatures :
       hook' = [pc |-> "find",
                cb |-> [id |-> id, status |-> st, timestamp |-> now \div 1000, signed |-> sg],
                notification |-> NoRow]
  /\ UNCHANGED <<ingestVars, workerVars, handled, exchange, bulk, down>>

\* one answered callback: what it carried, the notification it was applied to (0: none),
\* the state that notification was found in, and the HTTP status of the reply
Handled(cb, row, http) ==
  [id |-> cb.id, status |-> cb.status, signed |-> cb.signed,
   notificationId |-> row.id, was |-> row.status, http |-> http]

\* const notification = await notificationRepository.findById(whatsappMessageId);
\* if (!notification) continue; (the loop ends and the route replies 200)
WhFind ==
  LET cb == hook.cb IN
  /\ hook.pc = "find"
  /\ IF cb.id \in DOMAIN notifications
     THEN /\ hook' = [hook EXCEPT !.pc = "update",
                                  !.notification =
                                     [id |-> cb.id, status |-> notifications[cb.id].status,
                                      attemptNumber |-> notifications[cb.id].attemptNumber]]
          /\ UNCHANGED handled
     ELSE /\ hook' = IdleHook
          /\ handled' = Append(handled, Handled(cb, NoRow, 200))
  /\ UNCHANGED <<ingestVars, workerVars, exchange, bulk, down>>

\* switch (statusValue): the new status, the status found when the value is unknown
NewStatus(statusValue, current) ==
  IF statusValue \in {"sent", "delivered", "read", "failed"} THEN statusValue ELSE current

\* updates.<x>At = new Date(parseInt(status.timestamp) * 1000)
StatusUpdates(cb) ==
  LET at == cb.timestamp * 1000 IN
  IF cb.status = "sent" THEN [sentAt |-> at]
  ELSE IF cb.status = "delivered" THEN [deliveredAt |-> at]
  ELSE IF cb.status = "read" THEN [readAt |-> at]
  ELSE IF cb.status = "failed" THEN [failedAt |-> at]
  ELSE NoUpdates

\* await notificationRepository.updateStatus(notification.id, newStatus, updates)
WhUpdate ==
  LET cb == hook.cb
      n  == hook.notification
  IN
  /\ hook.pc = "update"
  /\ notifications' = UpdateStatus(n.id, NewStatus(cb.status, n.status), StatusUpdates(cb))
  /\ hook' = [hook EXCEPT !.pc = "log"]
  /\ UNCHANGED <<now, nextId, requests, responses, api, rateLimits, queue, published,
                 incremented>>
  /\ UNCHANGED <<workerVars, handled, exchange, bulk, down>>

\* await deliveryLogRepository.create({attemptNumber: notification.attemptNumber,
\* status: newStatus, whatsappMessageId}); reply.status(200).send({success: true})
WhLog ==
  LET cb == hook.cb
      n  == hook.notification
  IN
  /\ hook.pc = "log"
  /\ deliveryLogs' = Append(deliveryLogs,
                            LogRow(n.id, n.attemptNumber, NewStatus(cb.status, n.status),
                                   cb.id))
  /\ handled' = Append(handled, Handled(cb, n, 200))
  /\ hook' = IdleHook
  /\ UNCHANGED <<ingestVars, dlq, task, sweep, storeUp, sends, exchange, bulk, down>>

Webhook(cap, signatures) == WhReceive(cap, signatures) \/ WhFind \/ WhUpdate \/ WhLog

\* ------------------------------------------------------------------------
\* preHandlers of the API routes and GET /v1/notifications/:id/status
\* ------------------------------------------------------------------------
\* VALID_API_KEYS
ValidApiKeys == {"t1", "t2"}

\* the X-API-Key header of a request: "none" when it is absent
ApiKeyInputs == ValidApiKeys \cup {"none", "bad"}

Digits == {"0", "1", "2", "3", "4", "5", "6", "7", "8", "9"}

\* phoneNumberRegex = /^\+[1-9]\d{1,14}$/
IsE164(phone) ==
  /\ Len(phone) >= 3
  /\ Len(phone) <= 16
  /\ phone[1] = "+"
  /\ phone[2] \in Digits \ {"0"}
  /\ \A i \in 3..Len(phone) : phone[i] \in Digits

PhoneInputs ==
  { <<"+", "1", "4">>, <<"1", "4", "1">>, <<"+", "0", "4">>, <<"+", "1">>,
    <<"+", "1", "x">>,
    <<"+", "1", "4", "1", "5", "5", "5", "5", "2", "6", "7", "1", "0", "0", "0", "0">>,
    <<"+", "1", "4", "1", "5", "5", "5", "5", "2", "6", "7", "1", "0", "0", "0", "0", "0">> }

\* request bodies: recipient present or not, its phone_number, template and message
\* present or not (the other fields are well formed)
BodyInputs ==
  [hasRecipient : BOOLEAN, phone : PhoneInputs, hasTemplate : BOOLEAN,
   hasMessage : BOOLEAN]

NoBody == [hasRecipient |-> FALSE, phone |-> <<>>, hasTemplate |-> FALSE,
           hasMessage |-> FALSE]

\* notificationRequestSchema.parse: recipient with an E.164 phone_number, and
\* .refine((data) => data.template || data.message)
SchemaAccepts(body) ==
  /\ body.hasRecipient
  /\ IsE164(body.phone)
  /\ body.hasTemplate \/ body.hasMessage

Passed == [http |-> 0, code |-> "none"]

\* an authentication that only asks for the header to be present
AuthenticateApiKeyAnyKey(apiKey) ==
  IF apiKey = "none" THEN [http |-> 401, code |-> "MISSING_API_KEY"] ELSE Passed

\* authenticateApiKey: 401 MISSING_API_KEY, 401 INVALID_API_KEY, or the request goes on
AuthenticateApiKey(apiKey) ==
  IF apiKey = "none" THEN [http |-> 401, code |-> "MISSING_API_KEY"]
  ELSE IF apiKey \notin ValidApiKeys THEN [http |-> 401, code |-> "INVALID_API_KEY"]
  ELSE Passed

\* validateRequest(schema): 400 VALIDATION_ERROR on a ZodError
ValidateRequest(body) ==
  IF SchemaAccepts(body) THEN Passed ELSE [http |-> 400, code |-> "VALIDATION_ERROR"]

\* preHandler: [authenticateApiKey, validateRequest(notificationRequestSchema)]
PreHandlers(apiKey, body) ==
  IF AuthenticateApiKey(apiKey) # Passed THEN AuthenticateApiKey(apiKey)
  ELSE ValidateRequest(body)

NoExchange ==
  [route |-> "none", apiKey |-> "none", body |-> NoBody, id |-> 0, http |-> 0,
   code |-> "none", data |-> <<>>, admits |-> 0]

\* the latest POST passed its preHandlers and its handler has not started yet
Admitted ==
  /\ exchange.route = "create"
  /\ exchange.http = 0
  /\ exchange.admits = nextId

\* POST /v1/notifications reaches the preHandlers: a rejected request is answered by
\* them, an accepted one goes on to the handler
PreHandle(cap) ==
  /\ ~Admitted
  /\ nextId <= cap
  /\ \E apiKey \in Tenants \cup {"none", "bad"}, body \in BodyInputs :
       LET r == PreHandlers(apiKey, body) IN
       exchange' = [route |-> "create", apiKey |-> apiKey, body |-> body, id |-> 0,
                    http |-> r.http, code |-> r.code, data |-> <<>>,
                    admits |-> IF r = Passed THEN nextId ELSE 0]
  /\ UNCHANGED <<ingestVars, workerVars, hook, handled, bulk, down>>

\* the handler of an admitted POST starts: createNotification(request.body, apiKey)
HandlerEntry(p, cap) ==
  /\ Admitted
  /\ ApiReceive(p, cap, {"none"}, {NULL})

\* the notification's delivery logs among the first n rows, newest first
RECURSIVE LogsDesc(_, _)
LogsDesc(id, n) ==
  IF n = 0 THEN <<>>
  ELSE IF deliveryLogs[n].notificationId = id
  THEN <<[attemptNumber |-> deliveryLogs[n].attemptNumber,
          status |-> deliveryLogs[n].status]>> \o LogsDesc(id, n - 1)
  ELSE LogsDesc(id, n - 1)

\* deliveryLogs of findById: orderBy createdAt desc, take 10
RecentLogs(id) == Take(LogsDesc(id, Len(deliveryLogs)), 10)

\* the data of the 200 reply of the status route
StatusData(id) ==
  LET n == notifications[id] IN
  [id |-> id, status |-> n.status, recipientPhone |-> n.recipientPhone,
   createdAt |-> n.createdAt, sentAt |-> n.sentAt, deliveredAt |-> n.deliveredAt,
   readAt |-> n.readAt, failedAt |-> n.failedAt, attemptNumber |-> n.attemptNumber,
   deliveryLogs |-> RecentLogs(id)]

\* the status route answering whatever notification has the id, whoever asks
StatusReplyUnscoped(apiKey, id) ==
  IF id \notin DOMAIN notifications
  THEN [http |-> 404, code |-> "NOT_FOUND", data |-> <<>>]
  ELSE [http |-> 200, code |-> "none", data |-> <<StatusData(id)>>]

\* GET /v1/notifications/:id/status after authentication: findById, 404 NOT_FOUND,
\* 403 FORBIDDEN when notification.tenantId !== apiKey, else the status data
StatusReply(apiKey, id) ==
  IF id \notin DOMAIN notifications
  THEN [http |-> 404, code |-> "NOT_FOUND", data |-> <<>>]
  ELSE IF notifications[id].tenantId # apiKey
  THEN [http |-> 403, code |-> "FORBIDDEN", data |-> <<>>]
  ELSE [http |-> 200, code |-> "none", data |-> <<StatusData(id)>>]

GetStatus ==
  /\ ~Admitted
  /\ \E apiKey \in ApiKeyInputs, id \in NotifIds :
       LET a == AuthenticateApiKey(apiKey)
           r == IF a # Passed THEN [http |-> a.http, code |-> a.code, data |-> <<>>]
                ELSE StatusReply(apiKey, id)
       IN exchange' = [route |-> "status", apiKey |-> apiKey, body |-> NoBody, id |-> id,
                       http |-> r.http, code |-> r.code, data |-> r.data, admits |-> 0]
  /\ UNCHANGED <<ingestVars, workerVars, hook, handled, bulk, down>>

\* ------------------------------------------------------------------------
\* POST /v1/notifications/bulk: createBulkNotifications
\* ------------------------------------------------------------------------
NoBulkReply == [http |-> 0, total |-> 0, successful |-> 0, failed |-> 0]

IdleBulk ==
  [pc |-> "idle", entries |-> <<>>, first |-> 0, successful |-> <<>>, failed |-> <<>>,
   reply |-> NoBulkReply]

\* body.notifications: one to cap entries, each with its recipient
BulkInputs(cap) == UNION {[1..n -> Recipients] : n \in 1..cap}

\* entries of the bulk request whose createNotification has been called / has ended
Started == nextId - bulk.first

Collected == Len(bulk.successful) + Len(bulk.failed)

\* the handler is entered: results = {successful: [], failed: []}
BulkReceive(cap) ==
  /\ bulk.pc = "idle"
  /\ \A p \in ApiProcs : api[p].pc = "idle"
  /\ \E entries \in BulkInputs(cap) :
       /\ nextId + Len(entries) - 1 <= cap
       /\ bulk' = [IdleBulk EXCEPT !.pc = "running", !.entries = entries, !.first = nextId]
  /\ UNCHANGED <<ingestVars, workerVars, hook, handled, exchange, down>>

\* for (let i = 0; ...) { try { const result = await createNotification(requests[i], apiKey)
BulkEntry(p) ==
  /\ bulk.pc = "running"
  /\ Collected = Started
  /\ Started < Len(bulk.entries)
  /\ ApiReceive(p, nextId, {"none"}, {NULL})
  /\ requests'[nextId].recipient = bulk.entries[Started + 1]

\* a loop that keeps no record of an entry whose createNotification threw
BulkCollectDropping(p) ==
  LET id == nextId - 1 IN
  /\ bulk.pc = "running"
  /\ api[p].pc = "idle"
  /\ Collected < Started
  /\ bulk' = IF responses[id].http = 201
             THEN [bulk EXCEPT !.successful = Append(@, [id |-> id, status |-> "queued"])]
             ELSE [bulk EXCEPT !.first = @ + 1]
  /\ UNCHANGED <<ingestVars, workerVars, hook, handled, exchange, down>>

\* results.successful.push(result) } catch (error) { results.failed.push({index: i,
\* error: error.message}) }
BulkCollect(p) ==
  LET id == nextId - 1 IN
  /\ bulk.pc = "running"
  /\ api[p].pc = "idle"
  /\ Collected < Started
  /\ bulk' = IF responses[id].http = 201
             THEN [bulk EXCEPT !.successful = Append(@, [id |-> id, status |-> "queued"])]
             ELSE [bulk EXCEPT !.failed =
                                  Append(@, [index |-> Collected,
                                             error |-> responses[id].message])]
  /\ UNCHANGED <<ingestVars, workerVars, hook, handled, exchange, down>>

\* return results; reply.status(201).send({total, successful, failed, results})
BulkReturn ==
  /\ bulk.pc = "running"
  /\ Collected = Len(bulk.entries)
  /\ bulk' = [bulk EXCEPT !.pc = "done",
                          !.reply = [http |-> 201, total |-> Len(bulk.entries),
                                     successful |-> Len(bulk.successful),
                                     failed |-> Len(bulk.failed)]]
  /\ UNCHANGED <<ingestVars, workerVars, hook, handled, exchange, down>>

\* ------------------------------------------------------------------------
\* Worker main: shutdown on SIGTERM / SIGINT
\* ------------------------------------------------------------------------
\* shutdown: consumer.stop(); retryScheduler.stop(); scheduledProcessor.stop();
\* await disconnectDatabase()
ShutdownSignal ==
  /\ down = "running"
  /\ down' = "disconnecting"
  /\ UNCHANGED <<ingestVars, workerVars, hook, handled, exchange, bulk>>

\* disconnectDatabase resolved: process.exit(0)
ShutdownExit ==
  /\ down = "disconnecting"
  /\ down' = "exited"
  /\ UNCHANGED <<ingestVars, workerVars, hook, handled, exchange, bulk>>

\* ------------------------------------------------------------------------
\* Specification of the API service alone: concurrent createNotification calls
\* ------------------------------------------------------------------------
SeedRows(c) ==
  IF c = 0 THEN <<>>
  ELSE <<[recipientPhone |-> 1, windowStart |-> 0, windowEnd |-> HourMs,
          messageCount |-> c]>>

InitCommon ==
  /\ now = 0
  /\ nextId = 1
  /\ requests = <<>>
  /\ responses = <<>>
  /\ api = [p \in ApiProcs |-> IdleApi]
  /\ notifications = <<>>
  /\ queue = <<>>
  /\ published = {}
  /\ incremented = {}
  /\ deliveryLogs = <<>>
  /\ dlq = {}
  /\ task = [x \in Runners |-> IdleTask]
  /\ sweep = [x \in Sweepers |-> [pc |-> "waiting", items |-> <<>>]]
  /\ storeUp = TRUE
  /\ sends = [i \in NotifIds |-> 0]
  /\ hook = IdleHook
  /\ handled = <<>>
  /\ exchange = NoExchange
  /\ bulk = IdleBulk
  /\ down = "running"

InitIngest ==
  /\ InitCommon
  /\ \E c \in SeedCounts : rateLimits = SeedRows(c)

NextIngest ==
  \/ \E p \in ApiProcs : ApiReceive(p, MaxNotifs, IdempotencyKeys, ScheduleLeads)
  \/ \E p \in ApiProcs : ApiCheckLimit(p)
  \/ \E p \in ApiProcs : ApiCreate(p)
  \/ \E p \in ApiProcs : ApiIncrementFind(p)
  \/ \E p \in ApiProcs : ApiIncrementWrite(p)
  \/ \E p \in ApiProcs : ApiPublish(p)
  \/ Tick(MaxTime)

SpecIngest == InitIngest /\ [][NextIngest]_vars

\* ------------------------------------------------------------------------
\* Specification of the whole pipeline: one request handler, the queue, the
\* consumer, the processor and the two schedulers
\* ------------------------------------------------------------------------
Init ==
  /\ InitCommon
  /\ rateLimits = <<>>

\* createNotification in the one request handler
Ingest ==
  \/ ApiReceive(1, MaxPipelineNotifs, {"none"}, {NULL, 120000})
  \/ ApiCheckLimit(1)
  \/ ApiCreate(1)
  \/ ApiIncrementFind(1)
  \/ ApiIncrementWrite(1)
  \/ ApiPublish(1)

\* processMessage run by x, with at most cap provider calls per notification
Process(x, cap) ==
  \/ PmSetProcessing(x)
  \/ PmSend(x, cap)
  \/ PmMarkSent(x)
  \/ PmLogSent(x)
  \/ PmLogFailed(x)
  \/ PmUpdateFailed(x)
  \/ PmIncrementAttempt(x)

Next ==
  \/ Ingest
  \/ Tick(MaxPipelineTime)
  \/ ConsumerPoll(1)
  \/ ConsumerDelete(1)
  \/ \E x \in {1, Retry} : Process(x, MaxSends)
  \/ \E x \in Sweepers : TimerFires(x)
  \/ \E x \in Sweepers : SweepFind(x)
  \/ SweepStartItem(Retry)
  \/ SweepItemDone(Retry)

Spec == Init /\ [][Next]_vars

\* The same pipeline with its scheduling: every request handler, the consumer loop and
\* both timer loops keep taking their steps, and time passes
HandlerSteps ==
  ApiCheckLimit(1) \/ ApiCreate(1) \/ ApiIncrementFind(1) \/ ApiIncrementWrite(1)
    \/ ApiPublish(1)

ConsumerSteps == ConsumerPoll(1) \/ ConsumerDelete(1) \/ Process(1, MaxSends)

RetrySteps ==
  TimerFires(Retry) \/ SweepFind(Retry) \/ SweepStartItem(Retry) \/ SweepItemDone(Retry)
    \/ Process(Retry, MaxSends)

ScheduledSteps == TimerFires(Sched) \/ SweepFind(Sched)

FairSpec ==
  /\ Init /\ [][Next]_vars
  /\ WF_vars(HandlerSteps)
  /\ WF_vars(ConsumerSteps)
  /\ WF_vars(RetrySteps)
  /\ WF_vars(ScheduledSteps)
  /\ WF_vars(Tick(MaxPipelineTime))

\* ------------------------------------------------------------------------
\* Specification of the queue path with several worker instances: a message
\* whose visibility timeout runs out is delivered again
\* ------------------------------------------------------------------------
NextQueue ==
  \/ Ingest
  \/ Tick(MaxPipelineTime)
  \/ \E w \in Workers : ConsumerPoll(w)
  \/ \E w \in Workers : ConsumerDelete(w)
  \/ \E w \in Workers : ConsumerDeleteFails(w)
  \/ \E id \in NotifIds : Redrive(id)
  \/ \E w \in Workers : Process(w, MaxSendsDup)

SpecQueue == Init /\ [][NextQueue]_vars

\* ------------------------------------------------------------------------
\* Specification of one worker instance whose store calls may fail
\* ------------------------------------------------------------------------
NextFaults ==
  \/ Ingest
  \/ Tick(MaxPipelineTime)
  \/ ConsumerPoll(1)
  \/ ConsumerDelete(1)
  \/ ConsumerDeleteFails(1)
  \/ ConsumerCatch(1)
  \/ \E id \in NotifIds : Redrive(id)
  \/ Process(1, MaxSendsDup)
  \/ StoreFails
  \/ StoreRecovers

SpecFaults == Init /\ [][NextFaults]_vars

\* ------------------------------------------------------------------------
\* Specification of the pipeline with the provider's status callbacks
\* ------------------------------------------------------------------------
NextWebhook ==
  \/ ApiReceive(1, MaxPipelineNotifs, {"none"}, {NULL})
  \/ HandlerSteps
  \/ Tick(MaxPipelineTime)
  \/ ConsumerPoll(1)
  \/ ConsumerDelete(1)
  \/ Process(1, MaxSends)
  \/ Webhook(MaxCallbacks, BOOLEAN)

SpecWebhook == Init /\ [][NextWebhook]_vars

\* The same with the retry scheduler, one callback and every callback signed
NextWebhookRetry ==
  \/ ApiReceive(1, MaxPipelineNotifs, {"none"}, {NULL})
  \/ HandlerSteps
  \/ Tick(MaxPipelineTime)
  \/ ConsumerPoll(1)
  \/ ConsumerDelete(1)
  \/ \E x \in {1, Retry} : Process(x, MaxSendsHook)
  \/ TimerFires(Retry)
  \/ SweepFind(Retry)
  \/ SweepStartItem(Retry)
  \/ SweepItemDone(Retry)
  \/ Webhook(1, {TRUE})

SpecWebhookRetry == Init /\ [][NextWebhookRetry]_vars

\* the timer loop of the retry scheduler
RetrySweep ==
  TimerFires(Retry) \/ SweepFind(Retry) \/ SweepStartItem(Retry) \/ SweepItemDone(Retry)

\* ------------------------------------------------------------------------
\* Specification of the API routes with their preHandlers
\* ------------------------------------------------------------------------
NextEdge ==
  \/ PreHandle(MaxNotifs)
  \/ HandlerEntry(1, MaxNotifs)
  \/ HandlerSteps
  \/ GetStatus

SpecEdge == Init /\ [][NextEdge]_vars

\* ------------------------------------------------------------------------
\* Specification of the bulk route
\* ------------------------------------------------------------------------
InitBulk == InitIngest

NextBulk ==
  \/ BulkReceive(MaxNotifs)
  \/ BulkEntry(1)
  \/ HandlerSteps
  \/ BulkCollect(1)
  \/ BulkReturn
  \/ Tick(MaxTime)

SpecBulk == InitBulk /\ [][NextBulk]_vars

\* ------------------------------------------------------------------------
\* Specification of one worker instance receiving the shutdown signal
\* ------------------------------------------------------------------------
\* while (this.isRunning) { await this.poll(messageHandler) }
WorkerReceives == down = "running" /\ ConsumerPoll(1)

\* the handlers in flight go on for as long as the process lives
WorkerHandles == down # "exited" /\ (ConsumerDelete(1) \/ Process(1, MaxSends))

NextShutdown ==
  \/ ApiReceive(1, MaxNotifs, {"none"}, {NULL})
  \/ HandlerSteps
  \/ Tick(MaxPipelineTime)
  \/ WorkerReceives
  \/ WorkerHandles
  \/ ShutdownSignal
  \/ ShutdownExit

SpecShutdown == Init /\ [][NextShutdown]_vars

\* ------------------------------------------------------------------------
\* Specification of one worker instance whose deleteMessage calls are rejected, so that
\* every message is redelivered after its visibility timeout, and the retry scheduler
\* ------------------------------------------------------------------------
NextRedeliver ==
  \/ ApiReceive(1, MaxPipelineNotifs, {"none"}, {NULL})
  \/ HandlerSteps
  \/ Tick(MaxRedeliverTime)
  \/ ConsumerPoll(1)
  \/ ConsumerDeleteFails(1)
  \/ \E x \in {1, Retry} : Process(x, MaxSends)
  \/ RetrySweep

SpecRedeliver == Init /\ [][NextRedeliver]_vars

\* ------------------------------------------------------------------------
\* Specification of one worker instance with a client reading the status
\* ------------------------------------------------------------------------
NextObserve ==
  \/ ApiReceive(1, MaxPipelineNotifs, {"none"}, {NULL})
  \/ HandlerSteps
  \/ Tick(MaxPipelineTime)
  \/ ConsumerPoll(1)
  \/ ConsumerDelete(1)
  \/ Process(1, MaxSendsDup)
  \/ GetStatus

SpecObserve == Init /\ [][NextObserve]_vars

\* ------------------------------------------------------------------------
\* Specification of one first delivery attempt whose provider call may throw any error
\* ------------------------------------------------------------------------
NextClassify ==
  \/ ApiReceive(1, MaxPipelineNotifs, {"none"}, {NULL})
  \/ HandlerSteps
  \/ ConsumerPoll(1)
  \/ PmSetProcessing(1)
  \/ PmSendThrowing(1, 1, ErrorInputs)
  \/ PmMarkSent(1)
  \/ PmLogSent(1)
  \/ PmLogFailed(1)
  \/ PmUpdateFailed(1)
  \/ PmIncrementAttempt(1)
  \/ ConsumerDelete(1)

SpecClassify == Init /\ [][NextClassify]_vars

\* ------------------------------------------------------------------------
\* Specification of one worker instance and the retry scheduler when every provider call
\* that fails fails with HTTP 503 and deleteMessage may be rejected
\* ------------------------------------------------------------------------
Unavailable == {e \in ProviderErrors : e.status = 503}

NextBackoff ==
  \/ ApiReceive(1, MaxPipelineNotifs, {"none"}, {NULL})
  \/ HandlerSteps
  \/ Tick(MaxRedeliverTime)
  \/ ConsumerPoll(1)
  \/ ConsumerDelete(1)
  \/ ConsumerDeleteFails(1)
  \/ \E x \in {1, Retry} : PmSetProcessing(x)
  \/ \E x \in {1, Retry} : PmSendThrowing(x, MaxSendsHook, Unavailable)
  \/ \E x \in {1, Retry} : PmMarkSent(x)
  \/ \E x \in {1, Retry} : PmLogSent(x)
  \/ \E x \in {1, Retry} : PmLogFailed(x)
  \/ \E x \in {1, Retry} : PmUpdateFailed(x)
  \/ \E x \in {1, Retry} : PmIncrementAttempt(x)
  \/ RetrySweep

SpecBackoff == Init /\ [][NextBackoff]_vars

\* ------------------------------------------------------------------------
\* Specification of one worker instance and its retry scheduler with several
\* notifications, a provider that is unavailable and a store whose calls may fail
\* ------------------------------------------------------------------------
\* the store stops answering while a retry pass is under way
StoreOutageInSweep == sweep[Retry].pc = "looping" /\ StoreFails

NextSweep ==
  \/ ApiReceive(1, MaxNotifs, {"none"}, {NULL})
  \/ HandlerSteps
  \/ Tick(MaxSweepTime)
  \/ ConsumerPoll(1)
  \/ ConsumerDelete(1)
  \/ \E x \in {1, Retry} : PmSetProcessing(x)
  \/ \E x \in {1, Retry} : PmSendThrowing(x, MaxSendsDup, Unavailable)
  \/ \E x \in {1, Retry} : PmMarkSent(x)
  \/ \E x \in {1, Retry} : PmLogSent(x)
  \/ \E x \in {1, Retry} : PmLogFailed(x)
  \/ \E x \in {1, Retry} : PmUpdateFailed(x)
  \/ \E x \in {1, Retry} : PmIncrementAttempt(x)
  \/ ConsumerCatch(1)
  \/ RetrySweep
  \/ StoreOutageInSweep

SpecSweep == Init /\ [][NextSweep]_vars

\* ------------------------------------------------------------------------
\* Specification of one worker instance whose queue also receives a message that is
\* no payload
\* ------------------------------------------------------------------------
NextMalformed ==
  \/ ApiReceive(1, MaxPipelineNotifs, {"none"}, {NULL})
  \/ HandlerSteps
  \/ Tick(MaxPipelineTime)
  \/ ForeignSend
  \/ ConsumerPollPayload(1)
  \/ ConsumerPollMalformed(1)
  \/ ConsumerDelete(1)
  \/ ConsumerCatch(1)
  \/ Redrive(MalformedId)
  \/ Process(1, MaxSendsDup)

SpecMalformed == Init /\ [][NextMalformed]_vars

\* ------------------------------------------------------------------------
\* Specification of the API service with concurrent admissions and one worker instance,
\* the recipient having been sent messages before
\* ------------------------------------------------------------------------
NextRecheck ==
  \/ \E p \in ApiProcs : ApiReceive(p, MaxNotifs, {"none"}, {NULL})
  \/ \E p \in ApiProcs : ApiCheckLimit(p)
  \/ \E p \in ApiProcs : ApiCreate(p)
  \/ \E p \in ApiProcs : ApiIncrementFind(p)
  \/ \E p \in ApiProcs : ApiIncrementWrite(p)
  \/ \E p \in ApiProcs : ApiPublish(p)
  \/ ConsumerPoll(1)
  \/ ConsumerDelete(1)
  \/ Process(1, 1)

SpecRecheck == InitIngest /\ [][NextRecheck]_vars

\* ------------------------------------------------------------------------
\* Specification of one worker instance with its two schedulers receiving the shutdown
\* signal
\* ------------------------------------------------------------------------
\* the timers and the retry pass go on for as long as the process lives
SchedulerTimers == down # "exited" /\ \E x \in Sweepers : TimerFires(x)

SchedulerFinds == down # "exited" /\ \E x \in Sweepers : SweepFind(x)

SchedulerLoops ==
  down # "exited" /\ (SweepStartItem(Retry) \/ SweepItemDone(Retry)
                        \/ Process(Retry, MaxSendsDup))

NextStop ==
  \/ ApiReceive(1, MaxPipelineNotifs, {"none"}, {NULL})
  \/ HandlerSteps
  \/ Tick(MaxPipelineTime)
  \/ WorkerReceives
  \/ WorkerHandles
  \/ SchedulerTimers
  \/ SchedulerFinds
  \/ SchedulerLoops
  \/ ShutdownSignal
  \/ ShutdownExit

SpecStop == Init /\ [][NextStop]_vars

\* ------------------------------------------------------------------------
\* Properties
\* ------------------------------------------------------------------------
\* the attempt whose number reaches max_attempts has failed
Exhausted(id) ==
  \E i \in 1..Len(deliveryLogs) :
    /\ deliveryLogs[i].notificationId = id
    /\ deliveryLogs[i].status = "failed"
    /\ deliveryLogs[i].attemptNumber >= notifications[id].maxAttempts

\* C1: the provider sends made for a notification by the queue path and the retry
\* scheduler together never exceed its max_attempts, and once the attempt numbered
\* max_attempts has failed findReadyForRetry does not select the notification again.
C1_RetriesBounded ==
  \A id \in DOMAIN notifications :
    /\ sends[id] <= notifications[id].maxAttempts
    /\ (Exhausted(id) /\ notifications[id].status = "failed") => ~ReadyForRetry(id)

AdvancedStates == {"sent", "delivered", "read"}

\* C2: a processMessage invoked for a notification that is sent, delivered or read takes
\* its first step straight to a normal return, without a provider call and without
\* changing the notification.
C2_DuplicateTolerated ==
  [][\A x \in Runners :
       (/\ task[x].pc = "start"
        /\ notifications[task[x].id].status \in AdvancedStates
        /\ task'[x].pc # "start")
       => (task'[x].pc = "returned" /\ UNCHANGED <<notifications, sends>>)]_vars

\* scheduled_for is present and in the future when the notification is created
ScheduledAhead(id) ==
  /\ requests[id].scheduledFor # NULL
  /\ requests[id].scheduledFor > notifications[id].createdAt

InitialState(id) == IF ScheduledAhead(id) THEN "scheduled" ELSE "queued"

\* C3: createNotification persists the notification in state scheduled when scheduled_for
\* is present and in the future and in state queued otherwise, and its 201 response
\* carries that state. (No step of the API service changes the state of a stored row.)
C3_InitialState ==
  \A id \in DOMAIN notifications :
    /\ notifications[id].status = InitialState(id)
    /\ (id \in DOMAIN responses /\ responses[id].http = 201)
         => responses[id].status = InitialState(id)

\* C4: a notification whose scheduled_for is in the future is not published to the queue
\* at ingestion, and no provider call is made for it before scheduled_for has passed.
C4_ScheduleHonored ==
  \A id \in DOMAIN notifications :
    ScheduledAhead(id) =>
      /\ id \notin published
      /\ sends[id] > 0 => requests[id].scheduledFor <= now

\* the request was refused by the rate-limit check
Denied(id) == id \in DOMAIN responses /\ responses[id].message = "Rate limit exceeded"

\* C5: a request refused by the rate-limit check is answered 429 with a positive
\* retryAfterSeconds.
C5_RateLimited429 ==
  \A id \in DOMAIN responses :
    Denied(id) => responses[id].http = 429 /\ responses[id].retryAfterSeconds > 0

\* C6: a createNotification call refused by the rate-limit check created no notification
\* row, did not increment the recipient's counter and published no work item.
C6_DeniedChangesNothing ==
  \A id \in DOMAIN responses :
    Denied(id) => /\ id \notin DOMAIN notifications
                  /\ id \notin incremented
                  /\ id \notin published
                  /\ id \notin DOMAIN queue

C6_Witness ==
  \E id \in DOMAIN responses, other \in DOMAIN notifications :
    Denied(id) /\ other \in incremented

\* sum of message_count over the recipient's windows that overlap [t - 1h, t]
TrailingHourCount(recipientPhone, t) ==
  SumCounts({i \in 1..Len(rateLimits) :
               /\ rateLimits[i].recipientPhone = recipientPhone
               /\ rateLimits[i].windowEnd > t - HourMs
               /\ rateLimits[i].windowStart <= t})

\* C7: for every recipient, the messages admitted in the windows overlapping the trailing
\* hour never exceed the limit by more than one per concurrent caller.
C7_ThrottlingBound ==
  \A r \in Recipients : TrailingHourCount(r, now) <= RateLimitPerHour + (NumApi - 1)

\* C8: a request that replays the Idempotency-Key of a request already answered 201
\* creates no notification row and no work item, and is answered with the earlier id.
C8_Idempotent ==
  \A id \in DOMAIN requests :
    requests[id].replays # {} =>
      /\ id \notin DOMAIN notifications
      /\ id \notin published
      /\ id \in DOMAIN responses => responses[id].id \in requests[id].replays

PublishFailed(id) ==
  /\ id \in DOMAIN responses
  /\ responses[id].message = "Failed to publish message to queue"

\* C9: a notification whose publish failed after its row was stored does not stay queued
\* for ever: it is eventually picked up and leaves state queued.
C9_PickedUpAfterPublishFailure ==
  \A id \in NotifIds :
    PublishFailed(id) ~> (id \in DOMAIN notifications /\ notifications[id].status # "queued")

\* C10: a message leaves the queue only by the delete of a consumer whose handler
\* returned, or by the redrive of a message received maxReceiveCount times; the consumer
\* whose handler threw leaves the queue as it is; a message in the queue whose
\* visibility timeout has passed can be received again or is redriven.
C10_AckOnlyAfterSuccess ==
  /\ [][/\ \A id \in DOMAIN queue :
            id \notin DOMAIN queue' =>
              \/ /\ id \in dlq' \ dlq
                 /\ queue[id].receiveCount >= MaxReceiveCount
              \/ \E w \in Workers : /\ task[w].pc = "returned"
                                    /\ task[w].id = id
                                    /\ task'[w].pc = "idle"
        /\ \A w \in Workers :
            (task[w].pc = "threw" /\ task'[w].pc # "threw") => queue' = queue]_vars
  /\ [](\A id \in DOMAIN queue :
          queue[id].invisibleUntil <= now => (Receivable(id) \/ ENABLED Redrive(id)))

C10_Witness ==
  \E w \in Workers :
    /\ task[w].pc = "threw"
    /\ task[w].id \in DOMAIN queue
    /\ queue[task[w].id].receiveCount = MaxReceiveCount


\* the callback whose handling ends with this step
Completes == Len(handled') > Len(handled)

Completed == handled'[Len(handled')]

\* C11: a delivered callback carrying the provider message id stored for a sent
\* notification leaves that notification delivered with delivered_at set, and a read
\* callback carrying it leaves it read with read_at set.
C11_CallbackMatchedByProviderId ==
  [][Completes =>
       \A n \in DOMAIN notifications :
         notifications[n].whatsappMessageId = Completed.id =>
           /\ (Completed.status = "delivered" /\ notifications[n].status = "sent")
                => /\ notifications'[n].status = "delivered"
                   /\ notifications'[n].deliveredAt # NULL
           /\ (Completed.status = "read"
                 /\ notifications[n].status \in {"sent", "delivered"})
                => /\ notifications'[n].status = "read"
                   /\ notifications'[n].readAt # NULL]_vars

\* callback c was meant for notification n: it carried the provider message id stored
\* for n, or it was applied to n
Addressed(c, n) ==
  \/ c.id = notifications[n].whatsappMessageId
  \/ c.notificationId = n

\* C12: when the read callback of a sent notification is handled before its delivered
\* callback, the notification ends read with both delivered_at and read_at set.
C12_OutOfOrderCallbacks ==
  [][Completes =>
       \A n \in DOMAIN notifications :
         ( /\ Completed.status = "delivered"
           /\ Addressed(Completed, n)
           /\ notifications[n].status \in {"sent", "delivered", "read"}
           /\ \E k \in 1..Len(handled) :
                /\ handled[k].status = "read"
                /\ \/ handled[k].id = notifications[n].whatsappMessageId
                   \/ handled[k].notificationId = n /\ handled[k].was = "sent" )
         => /\ notifications'[n].status = "read"
            /\ notifications'[n].readAt # NULL
            /\ notifications'[n].deliveredAt # NULL]_vars

\* a failed callback was applied to notification n while it was sent
FailedByCallback(n) ==
  \E k \in 1..Len(handled) :
    /\ handled[k].status = "failed"
    /\ handled[k].notificationId = n
    /\ handled[k].was = "sent"

\* C13: once a failed callback has been applied to a sent notification, no further call
\* to the provider is made for it, by the retry scheduler or by any worker.
C13_CallbackFailureTerminal ==
  [][\A n \in DOMAIN notifications : FailedByCallback(n) => sends'[n] = sends[n]]_vars

\* C14: a callback POST that fails verification is answered 403 and applied to no
\* notification.
C14_UnverifiedCallbackRejected ==
  \A k \in 1..Len(handled) :
    ~handled[k].signed => handled[k].http = 403 /\ handled[k].notificationId = 0


\* the body has no recipient or a phone number that is not E.164
BadBody(body) == ~body.hasRecipient \/ ~IsE164(body.phone)

\* the preHandlers answer a POST /v1/notifications with this step
Rejects ==
  /\ exchange' # exchange
  /\ exchange'.route = "create"
  /\ exchange'.http \in {400, 401}

\* C15: POST /v1/notifications without a valid API key is answered 401, and with a valid
\* key and a body without recipient or with a non-E.164 phone it is answered 400; the
\* rejection changes no row, counter or queue message, and createNotification starts
\* only for a request that carried a valid key and a well-formed body.
C15_RejectedBeforeHandler ==
  /\ [](exchange.route = "create" =>
          /\ exchange.apiKey \notin ValidApiKeys => exchange.http = 401
          /\ (exchange.apiKey \in ValidApiKeys /\ BadBody(exchange.body))
               => exchange.http = 400)
  /\ [][Rejects => UNCHANGED <<ingestVars, workerVars>>]_vars
  /\ [][nextId' # nextId =>
          /\ exchange.route = "create"
          /\ exchange.apiKey \in ValidApiKeys
          /\ ~BadBody(exchange.body)]_vars

C15_Witness ==
  /\ exchange.route = "create"
  /\ exchange.http = 400
  /\ ~exchange.body.hasRecipient
  /\ Len(notifications) = 1
  /\ Len(queue) = 1

\* the status route answers a caller holding a valid key with this step
AnswersStatus ==
  /\ exchange' # exchange
  /\ exchange'.route = "status"
  /\ exchange'.apiKey \in ValidApiKeys

\* C16: GET /v1/notifications/:id/status answers 404 when no notification has the id,
\* 403 with no data when the notification belongs to another tenant than the caller,
\* and 200 with the notification's status data only when it belongs to the caller.
C16_StatusTenantScoped ==
  [][AnswersStatus =>
       LET e == exchange' IN
       IF e.id \notin DOMAIN notifications
       THEN e.http = 404 /\ e.data = <<>>
       ELSE IF notifications[e.id].tenantId # e.apiKey
       THEN e.http = 403 /\ e.data = <<>>
       ELSE e.http = 200 /\ e.data = <<StatusData(e.id)>>]_vars

C16_Witness ==
  /\ exchange.route = "status"
  /\ exchange.http = 403
  /\ exchange.id \in DOMAIN notifications
  /\ notifications[exchange.id].tenantId # exchange.apiKey

\* C17: every request that passes validation carries exactly one of template and text
\* message.
C17_ExactlyOneContent ==
  (exchange.route = "create" /\ exchange.http = 0)
    => (exchange.body.hasTemplate # exchange.body.hasMessage)


\* the delivery logs of notification id, oldest first
LogsOf(id) == SelectSeq(deliveryLogs, LAMBDA row : row.notificationId = id)

\* the first send of id failed and was logged, the retried send succeeded and was logged
FailedThenSent(id) ==
  /\ Len(LogsOf(id)) = 2
  /\ LogsOf(id)[1].status = "failed" /\ LogsOf(id)[1].attemptNumber = 1
  /\ LogsOf(id)[2].status = "sent" /\ LogsOf(id)[2].attemptNumber = 2

\* C18: a notification whose first send failed with a transient error and whose retried
\* send succeeded, with the two delivery logs failed (attempt 1) and sent (attempt 2),
\* is in state sent with attempt_number = 2.
C18_TransientThenSuccess ==
  \A id \in DOMAIN notifications :
    FailedThenSent(id)
      => notifications[id].status = "sent" /\ notifications[id].attemptNumber = 2

\* C19: a notification left failed with failed_at set (a permanent error, or a transient
\* one with no attempt left) has next_retry_at null.
C19_PermanentFailureClearsRetry ==
  \A id \in DOMAIN notifications :
    (notifications[id].status = "failed" /\ notifications[id].failedAt # NULL)
      => notifications[id].nextRetryAt = NULL

\* the provider calls made for id whose delivery log is still to be written
PendingLogs(id) ==
  Cardinality({x \in Runners :
                 task[x].id = id /\ task[x].pc \in {"markSent", "logSent", "logFailed"}})

ReportedOk(i) ==
  Cardinality({k \in 1..Len(bulk.successful) : bulk.successful[k].id = bulk.first + i - 1})

ReportedFailed(i) ==
  Cardinality({k \in 1..Len(bulk.failed) : bulk.failed[k].index = i - 1})

\* C21: when createBulkNotifications has returned, createNotification has run for every
\* entry, in order; every entry is reported exactly once, as successful when its
\* notification was created and queued and as failed otherwise, so that
\* |successful| + |failed| is the number of entries; an entry that failed, among them one
\* denied by the rate limiter, stops no later entry.
C21_BulkPerEntry ==
  bulk.pc = "done" =>
    /\ Len(bulk.successful) + Len(bulk.failed) = Len(bulk.entries)
    /\ bulk.reply.http = 201
    /\ bulk.reply.total = Len(bulk.entries)
    /\ bulk.reply.successful + bulk.reply.failed = bulk.reply.total
    /\ \A i \in 1..Len(bulk.entries) :
         LET id == bulk.first + i - 1 IN
         /\ id \in DOMAIN requests
         /\ requests[id].recipient = bulk.entries[i]
         /\ ReportedOk(i) + ReportedFailed(i) = 1
         /\ ReportedOk(i) = 1 <=> (id \in DOMAIN notifications /\ id \in published)
         /\ ReportedFailed(i) = 1 <=> responses[id].http # 201

\* the first entry was denied by the rate limiter and the second one was created
C21_Witness ==
  /\ bulk.pc = "done"
  /\ Len(bulk.entries) = 2
  /\ bulk.failed = <<[index |-> 0, error |-> "Rate limit exceeded"]>>
  /\ Len(bulk.successful) = 1
  /\ bulk.first + 1 \in DOMAIN notifications

\* positions of processMessage after the provider call and before the write of its outcome
\* to the notification
OutcomePending == {"markSent", "logFailed", "updateFailed"}

\* C22: when the worker process exits on the shutdown signal, no message handler is
\* between its call to the provider and the write of its outcome.
C22_GracefulShutdown ==
  down = "exited" => \A w \in Workers : task[w].pc \notin OutcomePending

\* the state machine of the delivery: the legal changes of a notification's state
LegalEdges ==
  { <<"scheduled", "queued">>, <<"queued", "processing">>, <<"processing", "sent">>,
    <<"processing", "failed">>, <<"failed", "queued">>, <<"sent", "delivered">>,
    <<"delivered", "read">>, <<"sent", "failed">>, <<"delivered", "failed">> }

\* C23: every change of a notification's state follows an edge of the delivery state
\* machine.
C23_LegalTransitions ==
  [][\A id \in DOMAIN notifications :
       notifications'[id].status # notifications[id].status
         => <<notifications[id].status, notifications'[id].status>> \in LegalEdges]_vars

\* C24: every notification has attempt_number <= max_attempts, whatever the interleaving
\* of queue deliveries and retry sweeps.
C24_AttemptsWithinMax ==
  \A id \in DOMAIN notifications :
    notifications[id].attemptNumber <= notifications[id].maxAttempts

\* C25: next_retry_at is set only while the notification is failed with
\* attempt_number < max_attempts: it is null for a notification that is sent, delivered
\* or read, or failed with no retry budget.
C25_RetryAtOnlyWhenRetryable ==
  \A id \in DOMAIN notifications :
    notifications[id].nextRetryAt # NULL
      => ( /\ notifications[id].status = "failed"
           /\ notifications[id].attemptNumber < notifications[id].maxAttempts )

\* C26: every notification in state sent, delivered or read has a provider message id.
C26_SentHasProviderId ==
  \A id \in DOMAIN notifications :
    notifications[id].status \in {"sent", "delivered", "read"}
      => notifications[id].whatsappMessageId # NULL

\* C27: once a notification holds a provider message id, no step changes or clears it.
C27_ProviderIdSetOnce ==
  [][\A id \in DOMAIN notifications :
       notifications[id].whatsappMessageId # NULL
         => notifications'[id].whatsappMessageId = notifications[id].whatsappMessageId]_vars


\* sum of message_count over the recipient's windows [windowStart, windowEnd) that
\* overlap [t - 1h, t]
OverlapCount(recipientPhone, t) ==
  SumCounts({i \in 1..Len(rateLimits) :
               /\ rateLimits[i].recipientPhone = recipientPhone
               /\ rateLimits[i].windowStart <= t
               /\ rateLimits[i].windowEnd > t - HourMs})

\* C28: checkLimit answers true exactly when the sum of message_count over the
\* recipient's windows overlapping [now - 1h, now] is below the limit: the request goes
\* on to the creation of its row exactly in that case.
C28_CheckLimitOverlapping ==
  [][\A p \in ApiProcs :
       (api[p].pc = "check" /\ api'[p].pc # "check")
         => ( api'[p].pc = "create"
              <=> OverlapCount(requests[api[p].id].recipient, now) < RateLimitPerHour )]_vars

\* C29: concurrent increments leave at most one row per recipient and window start.
C29_OneRowPerWindow ==
  \A i, j \in 1..Len(rateLimits) :
    ( /\ rateLimits[i].recipientPhone = rateLimits[j].recipientPhone
      /\ rateLimits[i].windowStart = rateLimits[j].windowStart ) => i = j

\* C30: a status read never shows a notification failed by a transient error (failed_at
\* not set) together with the attempt_number it had before that attempt.
C30_FailureWrittenAtomically ==
  ( /\ exchange.route = "status"
    /\ exchange.http = 200
    /\ exchange.data[1].status = "failed"
    /\ exchange.data[1].failedAt = NULL )
  => exchange.data[1].attemptNumber >= 1

\* the work item of x has a retry budget left after the attempt being made
HasBudget(x) == task[x].attempt_number + 1 < task[x].max_attempts

ClassifiedTransient(e) ==
  \/ e.kind = "network"
  \/ e.status \in {408, 429}
  \/ e.status \in 500..599
  \/ e.code \in {1, 2, 4, 80007}

\* C32: a send error is treated as transient (with budget left, a retry is scheduled)
\* exactly when it is a network error, has HTTP status 408, 429 or any 5xx, or carries
\* provider code 1, 2, 4 or 80007; every other error is treated as permanent.
C32_ErrorClassification ==
  \A x \in Runners :
    (task[x].pc \in {"incrementAttempt", "returned"} /\ task[x].err # NoError
       /\ HasBudget(x))
      => (task[x].nextRetryAt # NULL <=> ClassifiedTransient(task[x].err))

\* the attempt numbers of the failed attempts of id that had retry budget, in the order
\* in which they were logged: handleError applied calculateRetryDelay to each of them
RECURSIVE RetriedAttempts(_, _)
RetriedAttempts(id, n) ==
  IF n = 0 THEN <<>>
  ELSE LET l == deliveryLogs[n] IN
       IF l.notificationId = id /\ l.status = "failed"
            /\ l.attemptNumber < notifications[id].maxAttempts
       THEN Append(RetriedAttempts(id, n - 1), l.attemptNumber)
       ELSE RetriedAttempts(id, n - 1)

\* no handleError for id is between its log row and its incrementAttempt
Settled(id) ==
  \A x \in Runners :
    task[x].id = id => task[x].pc \notin {"updateFailed", "incrementAttempt"}

\* C33: calculateRetryDelay(n) is 1000 * 2^(n-1) ms for n = 1..4, positive for n = 0 and
\* never above the maximum delay; and the successive retry delays applied to one
\* notification (every failure here is transient) are non-decreasing.
C33_BackoffMonotone ==
  /\ \A n \in 1..4 : CalculateRetryDelay(n) = 1000 * Pow2(n - 1)
  /\ CalculateRetryDelay(0) > 0
  /\ \A n \in 0..10 : CalculateRetryDelay(n) <= MaxDelayMs
  /\ \A id \in DOMAIN notifications :
       Settled(id) =>
         LET a == RetriedAttempts(id, Len(deliveryLogs)) IN
         \A i, j \in DOMAIN a :
           i < j => CalculateRetryDelay(a[i]) <= CalculateRetryDelay(a[j])

\* the ids of the items of a sweep, as a sequence
ItemIds(items) == [i \in DOMAIN items |-> items[i].id]

\* C34: a tick of the retry scheduler takes the notifications that are due (failed,
\* next_retry_at <= now, attempt_number < max_attempts, at most 100), each once, in
\* ascending next_retry_at order; it processes them one at a time in that order; an item
\* whose processing threw does not stop the remaining items; and the timer of the
\* scheduler fires again only when the previous tick has finished.
C34_RetryPassSerial ==
  [][/\ (sweep[Retry].pc = "finding" /\ sweep'[Retry].pc = "looping") =>
          LET items == sweep'[Retry].items IN
          /\ {items[i].id : i \in DOMAIN items} = {id \in DOMAIN notifications : ReadyForRetry(id)}
          /\ Len(items) <= 100
          /\ \A i, j \in DOMAIN items :
               i < j => /\ items[i].id # items[j].id
                        /\ notifications[items[i].id].nextRetryAt
                             <= notifications[items[j].id].nextRetryAt
     /\ (sweep[Retry].pc = "finding" /\ sweep'[Retry].pc = "waiting" /\ storeUp) =>
          {id \in DOMAIN notifications : ReadyForRetry(id)} = {}
     /\ (task[Retry].pc = "idle" /\ task'[Retry].pc # "idle") =>
          /\ sweep[Retry].pc = "looping"
          /\ task'[Retry].id = Head(sweep[Retry].items).id
          /\ UNCHANGED sweep
     /\ (sweep[Retry].pc = "looping" /\ sweep'[Retry] # sweep[Retry]) =>
          /\ task[Retry].pc \in {"returned", "threw"}
          /\ task'[Retry].pc = "idle"
          /\ sweep'[Retry].items = Tail(sweep[Retry].items)
          /\ sweep'[Retry].pc = IF Tail(sweep[Retry].items) = <<>> THEN "waiting" ELSE "looping"
     /\ (sweep[Retry].pc # "finding" /\ sweep'[Retry].pc = "finding") =>
          /\ sweep[Retry] = [pc |-> "waiting", items |-> <<>>]
          /\ task[Retry].pc = "idle"]_vars

\* the first of two due items, the one with the earlier next_retry_at, threw (its row was
\* left in processing) and the sweep went on to the second item
C34_Witness ==
  /\ sweep[Retry].pc = "looping"
  /\ Len(sweep[Retry].items) = 1
  /\ task[Retry].pc \in {"start", "logFailed", "threw"}
  /\ task[Retry].id = Head(sweep[Retry].items).id
  /\ \E other \in DOMAIN notifications :
       /\ other # task[Retry].id
       /\ notifications[other].status = "processing"
       /\ notifications[other].attemptNumber = 1
       /\ notifications[other].nextRetryAt < notifications[task[Retry].id].nextRetryAt
       /\ sends[other] = 2
       /\ task[1].pc = "idle"

\* C35: a work item whose body is missing or cannot be parsed is acknowledged when it is
\* rejected: once its handler has ended it is no longer on the queue, so it is received
\* at most once and never reaches the dead-letter queue.
C35_MalformedAcknowledged ==
  /\ MalformedId \notin dlq
  /\ (MalformedId \in DOMAIN queue /\ queue[MalformedId].receiveCount >= 1) =>
       /\ queue[MalformedId].receiveCount = 1
       /\ \E w \in Workers : task[w].id = MalformedId /\ task[w].pc # "idle"

\* C36: a store call that fails inside processMessage is an internal error: it is not
\* classified as a send failure, so no retry is scheduled for it and the handler does not
\* return normally (which would acknowledge the queue message); and a notification whose
\* send had succeeded is not marked failed because of it.
C36_StoreErrorsPropagate ==
  \A x \in Runners :
    task[x].err = StoreError =>
      /\ task[x].pc # "returned"
      /\ task[x].nextRetryAt = NULL
      /\ task[x].wamid # NULL => notifications[task[x].id].status # "failed"

\* the provider is being called for the work item of x in this step
CallsProvider(x) == task[x].pc = "send" /\ task'[x].pc # "send"

\* C37: the processor calls the provider only while the recipient's count of the trailing
\* hour is within the per-recipient limit; a notification found over the limit at
\* processing time is not sent.
C37_RecheckBeforeSend ==
  [][\A x \in Runners :
       CallsProvider(x) =>
         CurrentCount(notifications[task[x].id].recipientPhone, now) <= RateLimitPerHour]_vars

\* request.recipient.phone_number of recipient r, as the string the request carries
PhoneNumber(r) == IF r = 1 THEN "+14155552671" ELSE "+14155552672"

\* C38: every work item published at ingestion has deduplication id equal to the
\* notification id and message-group id equal to the recipient's phone number.
C38_GroupIsRecipient ==
  \A id \in DOMAIN queue :
    /\ queue[id].deduplicationId = id
    /\ queue[id].groupId = PhoneNumber(notifications[id].recipientPhone)

\* C39: every work item on the queue, and every work item a worker or scheduler is
\* processing, carries the id of a notification row that exists in the store.
C39_PersistBeforeEnqueue ==
  /\ \A id \in DOMAIN queue : id \in DOMAIN notifications
  /\ \A x \in Runners : task[x].pc # "idle" => task[x].id \in DOMAIN notifications

\* the worker is about to call the provider for an item it received from the queue, whose
\* row it has just moved to processing
C39_Witness ==
  /\ task[1].pc = "send"
  /\ task[1].id \in DOMAIN queue
  /\ task[1].id \in published
  /\ notifications[task[1].id].status = "processing"

\* C40: a sweep (processRetries / processScheduled) begins only while its scheduler has
\* not been stopped: once the shutdown sequence has called stop(), no sweep starts.
C40_NoSweepAfterStop ==
  [][\A x \in Sweepers :
       (sweep[x].pc = "waiting" /\ sweep'[x].pc = "finding") => down = "running"]_vars

====
